---- MODULE Spec2Model ----
(***************************************************************************)
(* Model of the greenlight rune engine (libs/gl-client/src/runes.rs) and   *)
(* of the Python credentials binding (libs/gl-client-py/src/credentials.rs)*)
(*                                                                         *)
(* Two specifications share the module: RuneSpec drives RuneFactory::carve *)
(* over DefRules policies, CredSpec drives the Credentials operations.     *)
(* Strings are TLA+ strings; Len, \o and SubSeq act on them character-wise.*)
(***************************************************************************)
EXTENDS Integers, Sequences, FiniteSets, TLC

VARIABLES
    \* ---- rune engine ----
    root,          \* the rune the run started from
    origin,        \* the rune object passed as `origin` to carve
    append,        \* the policy list of the last carve call
    originBefore,  \* origin as it was when the last carve was called
    carved,        \* result of the last carve call: Ok(token) / Err / none
    carves,        \* number of carve calls made so far
    checked,       \* the last are_restrictions_met call: its Context and outcome
    shown,         \* the last format!("{}", rule) call: the rule and its text
    \* ---- credentials binding ----
    creds,         \* the Credentials objects created so far, in creation order
    prov,          \* for each object: the operation that made it and its receiver
    last,          \* the last completed non-suspending call and its result
    call           \* per caller: the upgrade call it has in progress

runeVars == <<root, origin, append, originBefore, carved, carves, checked, shown>>
credVars == <<creds, prov, last, call>>
vars == <<root, origin, append, originBefore, carved, carves, checked, shown, creds, prov, last, call>>

\* Number of successive carve calls in one run.
MaxCarves == 3

None == [kind |-> "none"]
Ok(v) == [kind |-> "ok", val |-> v]
Err(e) == [kind |-> "err", err |-> e]

(***************************************************************************)
(* runeauth data model: Alternative, Restriction, Rune.                    *)
(***************************************************************************)

\* runes.rs:152-154: Alternative::new(field, cond, value, false)
alternative(field, cond, value) ==
    [field |-> field, cond |-> cond, value |-> value, case_insensitive |-> FALSE]

\* Restriction::new: a restriction needs at least one alternative.
RestrictionNew(alts) ==
    IF Len(alts) = 0
    THEN Err("restriction has no alternatives")
    ELSE Ok([alternatives |-> alts])

\* The condition symbols of the textual encoding.
CondSymbol(cond) ==
    CASE cond = "Missing"    -> "!"
      [] cond = "Equal"      -> "="
      [] cond = "BeginsWith" -> "^"

SymbolCond(sym) ==
    CASE sym = "!" -> "Missing"
      [] sym = "=" -> "Equal"
      [] sym = "^" -> "BeginsWith"

IsCondSymbol(ch) == ch \in {"!", "=", "^"}

\* field<cond-symbol>value
AlternativeEncode(alt) == alt.field \o CondSymbol(alt.cond) \o alt.value

RECURSIVE JoinWith(_, _)
JoinWith(texts, sep) ==
    IF Len(texts) = 0 THEN ""
    ELSE IF Len(texts) = 1 THEN texts[1]
    ELSE texts[1] \o sep \o JoinWith(Tail(texts), sep)

\* alternatives of one restriction are separated by "|"
RestrictionEncode(r) ==
    JoinWith([i \in 1..Len(r.alternatives) |-> AlternativeEncode(r.alternatives[i])], "|")

\* restrictions of a rune are separated by "&"
RestrictionsEncode(rs) ==
    JoinWith([i \in 1..Len(rs) |-> RestrictionEncode(rs[i])], "&")

\* Splits text at every occurrence of the one-character separator.
RECURSIVE SplitAt(_, _, _)
SplitAt(text, sep, from) ==
    LET idx == {i \in from..Len(text) : SubSeq(text, i, i) = sep}
    IN  IF idx = {}
        THEN <<SubSeq(text, from, Len(text))>>
        ELSE LET i == CHOOSE k \in idx : \A j \in idx : k <= j
             IN  <<SubSeq(text, from, i - 1)>> \o SplitAt(text, sep, i + 1)

\* Decodes one alternative: the field ends at the first condition symbol.
AlternativeDecode(text) ==
    LET idx == {i \in 1..Len(text) : IsCondSymbol(SubSeq(text, i, i))}
    IN  IF idx = {}
        THEN Err("no condition in alternative")
        ELSE LET i == CHOOSE k \in idx : \A j \in idx : k <= j
             IN  Ok(alternative(SubSeq(text, 1, i - 1),
                                SymbolCond(SubSeq(text, i, i)),
                                SubSeq(text, i + 1, Len(text))))

RestrictionDecode(text) ==
    LET parts == SplitAt(text, "|", 1)
        alts == [i \in 1..Len(parts) |-> AlternativeDecode(parts[i])]
    IN  IF \E i \in 1..Len(alts) : alts[i].kind = "err"
        THEN Err("malformed restriction")
        ELSE RestrictionNew([i \in 1..Len(alts) |-> alts[i].val])

\* The authentication code is a hash chain: the seed's digest, extended by
\* the encoding of every restriction added.  The hash is modelled as the
\* sequence of what was hashed (collision free).
MasterAuthcode(seed) == <<seed>>

ExtendAuthcode(authcode, r) == Append(authcode, RestrictionEncode(r))

\* Rune::add_restriction: appends the restriction and extends the authcode.
AddRestriction(rune, r) ==
    [authcode |-> ExtendAuthcode(rune.authcode, r),
     restrictions |-> Append(rune.restrictions, r)]

RECURSIVE AddRestrictions(_, _)
AddRestrictions(rune, rs) ==
    IF Len(rs) = 0 THEN rune
    ELSE AddRestrictions(AddRestriction(rune, Head(rs)), Tail(rs))

\* Rune::new_master_rune(seed, restrictions, None, None)
NewMasterRune(seed, rs) ==
    AddRestrictions([authcode |-> MasterAuthcode(seed), restrictions |-> <<>>], rs)

\* Rune::new(authcode, restrictions, None, None): the authcode is taken as
\* given, the restrictions are stored with it.
RuneNew(authcode, rs) == [authcode |-> authcode, restrictions |-> rs]

\* Rune::is_authorized(other): the hash chain is recomputed from the seed's
\* digest over the restrictions `other` carries and compared with the
\* authcode `other` presents.
IsAuthorized(master, other) ==
    AddRestrictions([authcode |-> <<Head(master.authcode)>>, restrictions |-> <<>>],
                    other.restrictions).authcode = other.authcode

\* Rune::to_base64: the authcode followed by the restriction text.  The
\* base64 alphabet itself is a bijection on bytes and is not spelled out.
ToBase64(rune) ==
    [authcode |-> rune.authcode, text |-> RestrictionsEncode(rune.restrictions)]

\* Rune::from_base64: parses the restriction text back into restrictions.
FromBase64(tok) ==
    IF tok.text = ""
    THEN Ok([authcode |-> tok.authcode, restrictions |-> <<>>])
    ELSE LET parts == SplitAt(tok.text, "&", 1)
             rs == [i \in 1..Len(parts) |-> RestrictionDecode(parts[i])]
         IN  IF \E i \in 1..Len(rs) : rs[i].kind = "err"
             THEN Err("malformed rune")
             ELSE Ok([authcode |-> tok.authcode,
                      restrictions |-> [i \in 1..Len(rs) |-> rs[i].val]])

(***************************************************************************)
(* DefRules and Restrictor::generate (runes.rs:56-114).                    *)
(***************************************************************************)
ReadOnly == [tag |-> "ReadOnly"]
Pay == [tag |-> "Pay"]
Add(rules) == [tag |-> "Add", rules |-> rules]

\* Flattens the alternatives of a list of restrictions (flat_map).
RECURSIVE FlatAlternatives(_)
FlatAlternatives(rs) ==
    IF Len(rs) = 0 THEN <<>>
    ELSE Head(rs).alternatives \o FlatAlternatives(Tail(rs))

RECURSIVE generate(_)
RECURSIVE AddFold(_, _)

\* The fold of Add putting each rule's alternatives in front of the
\* accumulated ones.
AddFold_prepends(rules, acc) ==
    IF Len(rules) = 0 THEN Ok(acc)
    ELSE LET g == generate(Head(rules))
         IN  IF g.kind = "err" THEN g
             ELSE AddFold(Tail(rules), FlatAlternatives(g.val) \o acc)

\* runes.rs:97-108: try_fold over the listed rules; the first generation
\* error ends the fold.
AddFold(rules, acc) ==
    IF Len(rules) = 0 THEN Ok(acc)
    ELSE LET g == generate(Head(rules))
         IN  IF g.kind = "err" THEN g
             ELSE AddFold(Tail(rules), acc \o FlatAlternatives(g.val))

\* generate with ReadOnly comparing the method to "Get" for equality.
generate_readOnlyEqual(rule) ==
    CASE rule.tag = "ReadOnly" ->
            Ok(<<RestrictionNew(<<alternative("method", "Equal", "Get"),
                                  alternative("method", "BeginsWith", "List")>>).val>>)
      [] rule.tag = "Pay" ->
            Ok(<<RestrictionNew(<<alternative("method", "Equal", "pay")>>).val>>)
      [] rule.tag = "Add" ->
            LET alt_set == AddFold(rule.rules, <<>>)
            IN  IF alt_set.kind = "err" THEN alt_set
                ELSE LET a == RestrictionNew(alt_set.val)
                     IN  IF a.kind = "err" THEN a ELSE Ok(<<a.val>>)

\* generate with Pay accepting every method that begins with "pay".
generate_payBeginsWith(rule) ==
    CASE rule.tag = "ReadOnly" ->
            Ok(<<RestrictionNew(<<alternative("method", "BeginsWith", "Get"),
                                  alternative("method", "BeginsWith", "List")>>).val>>)
      [] rule.tag = "Pay" ->
            Ok(<<RestrictionNew(<<alternative("method", "BeginsWith", "pay")>>).val>>)
      [] rule.tag = "Add" ->
            LET alt_set == AddFold(rule.rules, <<>>)
            IN  IF alt_set.kind = "err" THEN alt_set
                ELSE LET a == RestrictionNew(alt_set.val)
                     IN  IF a.kind = "err" THEN a ELSE Ok(<<a.val>>)

\* generate with Add storing the collected alternatives without going
\* through Restriction::new.
generate_addUnchecked(rule) ==
    CASE rule.tag = "ReadOnly" ->
            Ok(<<RestrictionNew(<<alternative("method", "BeginsWith", "Get"),
                                  alternative("method", "BeginsWith", "List")>>).val>>)
      [] rule.tag = "Pay" ->
            Ok(<<RestrictionNew(<<alternative("method", "Equal", "pay")>>).val>>)
      [] rule.tag = "Add" ->
            LET alt_set == AddFold(rule.rules, <<>>)
            IN  IF alt_set.kind = "err" THEN alt_set
                ELSE Ok(<<[alternatives |-> alt_set.val]>>)

\* runes.rs:78-113
generate(rule) ==
    CASE rule.tag = "ReadOnly" ->
            Ok(<<RestrictionNew(<<alternative("method", "BeginsWith", "Get"),
                                  alternative("method", "BeginsWith", "List")>>).val>>)
      [] rule.tag = "Pay" ->
            Ok(<<RestrictionNew(<<alternative("method", "Equal", "pay")>>).val>>)
      [] rule.tag = "Add" ->
            LET alt_set == AddFold(rule.rules, <<>>)
            IN  IF alt_set.kind = "err" THEN alt_set
                ELSE LET a == RestrictionNew(alt_set.val)
                     IN  IF a.kind = "err" THEN a ELSE Ok(<<a.val>>)

(***************************************************************************)
(* Display for DefRules (runes.rs:116-136).                                *)
(***************************************************************************)
RECURSIVE fmt(_)
RECURSIVE FmtFold(_, _)

\* runes.rs:124-130: the fold starts from the empty String; an element is
\* written without a separator whenever the accumulator is empty.
FmtFold(rules, acc) ==
    IF Len(rules) = 0 THEN acc
    ELSE FmtFold(Tail(rules),
                 IF acc = "" THEN fmt(Head(rules))
                 ELSE acc \o "|" \o fmt(Head(rules)))

\* runes.rs:117-134
fmt(rule) ==
    CASE rule.tag = "ReadOnly" -> "readonly"
      [] rule.tag = "Pay"      -> "pay"
      [] rule.tag = "Add"      -> FmtFold(rule.rules, "")

(***************************************************************************)
(* RuneFactory::carve (runes.rs:38-53).                                    *)
(***************************************************************************)
\* The fold of carve putting each policy's restrictions in front of the
\* accumulated ones.
RECURSIVE CarveFold_prepends(_, _)
CarveFold_prepends(policies, acc) ==
    IF Len(policies) = 0 THEN Ok(acc)
    ELSE LET r == generate(Head(policies))
         IN  IF r.kind = "err" THEN r
             ELSE CarveFold_prepends(Tail(policies), r.val \o acc)

\* runes.rs:39-43: try_fold over the policies, in list order.
RECURSIVE CarveFold(_, _)
CarveFold(policies, acc) ==
    IF Len(policies) = 0 THEN Ok(acc)
    ELSE LET r == generate(Head(policies))
         IN  IF r.kind = "err" THEN r
             ELSE CarveFold(Tail(policies), acc \o r.val)

\* carve building the token from the generated restrictions alone.
carve_dropsOrigin(orig, policies) ==
    LET restrictions == CarveFold(policies, <<>>)
    IN  IF restrictions.kind = "err"
        THEN [result |-> restrictions, origin |-> orig]
        ELSE LET originc == AddRestrictions(RuneNew(orig.authcode, <<>>), restrictions.val)
             IN  [result |-> Ok(ToBase64(originc)), origin |-> orig]

\* carve adding the restrictions to the origin itself instead of a clone.
carve_mutatesOrigin(orig, policies) ==
    LET restrictions == CarveFold(policies, <<>>)
    IN  IF restrictions.kind = "err"
        THEN [result |-> restrictions, origin |-> orig]
        ELSE LET originc == AddRestrictions(orig, restrictions.val)
             IN  [result |-> Ok(ToBase64(originc)), origin |-> originc]

\* carve storing the restrictions in the clone without extending its
\* authcode.
carve_keepsAuthcode(orig, policies) ==
    LET restrictions == CarveFold(policies, <<>>)
    IN  IF restrictions.kind = "err"
        THEN [result |-> restrictions, origin |-> orig]
        ELSE LET originc == RuneNew(orig.authcode, orig.restrictions \o restrictions.val)
             IN  [result |-> Ok(ToBase64(originc)), origin |-> orig]

\* carve adding the restrictions of the last policy only.
carve_lastPolicyOnly(orig, policies) ==
    LET restrictions == CarveFold(policies, <<>>)
    IN  IF restrictions.kind = "err"
        THEN [result |-> restrictions, origin |-> orig]
        ELSE LET kept == IF Len(policies) = 0 THEN <<>>
                         ELSE generate(policies[Len(policies)]).val
                 originc == AddRestrictions(orig, kept)
             IN  [result |-> Ok(ToBase64(originc)), origin |-> orig]

\* carve merging the restrictions of all policies into one restriction.
carve_unionOfPolicies(orig, policies) ==
    LET restrictions == CarveFold(policies, <<>>)
    IN  IF restrictions.kind = "err"
        THEN [result |-> restrictions, origin |-> orig]
        ELSE LET merged == IF Len(restrictions.val) = 0 THEN <<>>
                           ELSE <<[alternatives |-> FlatAlternatives(restrictions.val)]>>
                 originc == AddRestrictions(orig, merged)
             IN  [result |-> Ok(ToBase64(originc)), origin |-> orig]

\* The call's effect: `result` is what carve returns, `origin` is the rune
\* behind the `origin` reference once the call is over.
carve(orig, policies) ==
    LET restrictions == CarveFold(policies, <<>>)
    IN  IF restrictions.kind = "err"
        THEN [result |-> restrictions, origin |-> orig]
        ELSE LET originc == AddRestrictions(orig, restrictions.val)
             IN  [result |-> Ok(ToBase64(originc)), origin |-> orig]

(***************************************************************************)
(* Context and Check (runes.rs:156-200).                                   *)
(***************************************************************************)
\* u64::to_string of a small number of seconds.
Digit(d) == SubSeq("0123456789", d + 1, d + 1)

RECURSIVE ToDecimal(_)
ToDecimal(n) == IF n < 10 THEN Digit(n) ELSE ToDecimal(n \div 10) \o Digit(n % 10)

BeginsWith(value, prefix) ==
    /\ Len(prefix) <= Len(value)
    /\ SubSeq(value, 1, Len(prefix)) = prefix

\* ConditionChecker { value }.check_alternative(alt)
ConditionCheck(value, alt) ==
    CASE alt.cond = "Missing"    -> value = ""
      [] alt.cond = "Equal"      -> value = alt.value
      [] alt.cond = "BeginsWith" -> BeginsWith(value, alt.value)

\* check_alternative reading the pubkey for "method" and the method for
\* "pubkey".
check_alternative_swapped(ctx, alt) ==
    CASE alt.field = ""       -> ConditionCheck(ctx.unique_id, alt)
      [] alt.field = "method" -> ConditionCheck(ctx.pubkey, alt)
      [] alt.field = "pubkey" -> ConditionCheck(ctx.method, alt)
      [] alt.field = "time"   ->
            IF ctx.time < 0 THEN FALSE
            ELSE ConditionCheck(ToDecimal(ctx.time), alt)
      [] OTHER                -> ConditionCheck("", alt)

\* check_alternative converting the time before it looks at the field, so
\* that a time before the epoch fails every alternative.
check_alternative_eagerTime(ctx, alt) ==
    IF ctx.time < 0 THEN FALSE
    ELSE CASE alt.field = ""       -> ConditionCheck(ctx.unique_id, alt)
           [] alt.field = "method" -> ConditionCheck(ctx.method, alt)
           [] alt.field = "pubkey" -> ConditionCheck(ctx.pubkey, alt)
           [] alt.field = "time"   -> ConditionCheck(ToDecimal(ctx.time), alt)
           [] OTHER                -> ConditionCheck("", alt)

\* check_alternative resolving an unrecognized field to the method.
check_alternative_otherIsMethod(ctx, alt) ==
    CASE alt.field = ""       -> ConditionCheck(ctx.unique_id, alt)
      [] alt.field = "method" -> ConditionCheck(ctx.method, alt)
      [] alt.field = "pubkey" -> ConditionCheck(ctx.pubkey, alt)
      [] alt.field = "time"   ->
            IF ctx.time < 0 THEN FALSE
            ELSE ConditionCheck(ToDecimal(ctx.time), alt)
      [] OTHER                -> ConditionCheck(ctx.method, alt)

\* runes.rs:183-199.  TRUE stands for Ok(()), FALSE for Err.  `time` is in
\* seconds relative to the Unix epoch; a time before it makes
\* duration_since fail.
check_alternative(ctx, alt) ==
    CASE alt.field = ""       -> ConditionCheck(ctx.unique_id, alt)
      [] alt.field = "method" -> ConditionCheck(ctx.method, alt)
      [] alt.field = "pubkey" -> ConditionCheck(ctx.pubkey, alt)
      [] alt.field = "time"   ->
            IF ctx.time < 0 THEN FALSE
            ELSE ConditionCheck(ToDecimal(ctx.time), alt)
      [] OTHER                -> ConditionCheck("", alt)

\* A restriction is met when one of its alternatives is.
RestrictionMet(r, ctx) ==
    \E i \in 1..Len(r.alternatives) : check_alternative(ctx, r.alternatives[i])

\* Rune::are_restrictions_met(ctx).is_ok(): every restriction is met.
AreRestrictionsMet(rune, ctx) ==
    \A i \in 1..Len(rune.restrictions) : RestrictionMet(rune.restrictions[i], ctx)

(***************************************************************************)
(* Inputs of the rune specification.                                       *)
(***************************************************************************)
Methods ==
    {"", "pay", "Pay", "GetInfo", "ListFunds", "getinfo", "listfunds", "Lis", "Get",
     "List", "payList", "xGetInfo"}
Pubkeys == {"", "020000000000000000", "030000"}
UniqueIds == {"", "id-1"}
Times == {-1, 0, 12}

Contexts ==
    [method : Methods, pubkey : Pubkeys, unique_id : UniqueIds, time : Times]

\* The policy lists handed to carve.
PolicyLists ==
    { <<>>, <<ReadOnly>>, <<Pay>>, <<ReadOnly, Pay>>, <<Pay, ReadOnly>>,
      <<Add(<<ReadOnly, Pay>>)>>, <<Add(<<Pay>>)>>, <<Add(<<>>)>>,
      <<Add(<<Pay, Add(<<ReadOnly>>)>>)>>,
      <<Pay, Add(<<>>)>>, <<Add(<<Add(<<>>), Pay>>), ReadOnly>>,
      <<ReadOnly, Add(<<ReadOnly, Pay>>)>> }

Seed == "seed-0"

\* The runes a run starts from: the unrestricted master rune of the tests
\* and the runes r1, r3 of test_context_check (runes.rs:258-304).
InitRunes ==
    LET mr == NewMasterRune(Seed, <<>>)
    IN  { mr,
          RuneNew(mr.authcode,
                  <<RestrictionNew(<<alternative("pubkey", "Equal", "020000000000000000")>>).val>>),
          RuneNew(mr.authcode,
                  <<RestrictionNew(<<alternative("pubkey", "Missing", "")>>).val>>) }

\* The callers of Credentials methods.
Callers == {"t1", "t2"}

\* The positions of an upgrade call that has not returned yet.
InProgress == {"signing", "sending", "waiting", "confirmed"}

Idle == [pc |-> "idle", self |-> 0, mode |-> "none", clone |-> None,
         signReqs |-> 0, schedReqs |-> 0, result |-> None]

CredInit ==
    /\ creds = <<>>
    /\ prov = <<>>
    /\ last = [op |-> "none", self |-> 0, result |-> None]
    /\ call = [t \in Callers |-> Idle]

RuneInit ==
    /\ root \in InitRunes
    /\ origin = root
    /\ append = <<>>
    /\ originBefore = root
    /\ carved = None
    /\ carves = 0
    /\ checked = None
    /\ shown = None
    /\ CredInit

\* A call RuneFactory::carve(&origin, &policies).
Carve(policies) ==
    /\ carves < MaxCarves
    /\ LET eff == carve(origin, policies)
       IN  /\ carved' = eff.result
           /\ origin' = eff.origin
    /\ append' = policies
    /\ originBefore' = origin
    /\ carves' = carves + 1
    /\ UNCHANGED <<root, checked, shown>>
    /\ UNCHANGED credVars

\* The caller decodes the returned token and carves from that rune next.
Adopt ==
    /\ carved.kind = "ok"
    /\ FromBase64(carved.val).kind = "ok"
    /\ origin' = FromBase64(carved.val).val
    /\ originBefore' = FromBase64(carved.val).val
    /\ carved' = None
    /\ append' = <<>>
    /\ UNCHANGED <<root, carves, checked, shown>>
    /\ UNCHANGED credVars

RuneNext ==
    \/ \E policies \in PolicyLists : Carve(policies)
    \/ Adopt

\* One restriction with one alternative, as the tests build it
\* (runes.rs:259-320).
SingleRestriction(field, cond, value) ==
    <<RestrictionNew(<<alternative(field, cond, value)>>).val>>

\* The runes handed to are_restrictions_met: the master rune and r1..r4 of
\* test_context_check, and runes restricting the unique id, the time and a
\* field the Context does not know.
CheckRunes ==
    LET mr == NewMasterRune(Seed, <<>>)
    IN  { mr,
          RuneNew(mr.authcode, SingleRestriction("pubkey", "Equal", "020000000000000000")),
          RuneNew(mr.authcode, SingleRestriction("method", "Equal", "GetInfo")),
          RuneNew(mr.authcode, SingleRestriction("pubkey", "Missing", "")),
          RuneNew(mr.authcode, SingleRestriction("method", "Missing", "")),
          RuneNew(mr.authcode, SingleRestriction("", "Equal", "id-1")),
          RuneNew(mr.authcode, SingleRestriction("time", "Equal", "12")),
          RuneNew(mr.authcode, SingleRestriction("param", "Missing", "")),
          RuneNew(mr.authcode, SingleRestriction("param", "Equal", "x")) }

CheckInit ==
    /\ root \in CheckRunes
    /\ origin = root
    /\ append = <<>>
    /\ originBefore = root
    /\ carved = None
    /\ carves = 0
    /\ checked = None
    /\ shown = None
    /\ CredInit

\* A call origin.are_restrictions_met(ctx) (runes.rs:330-404).
Check(ctx) ==
    /\ checked' = [ctx |-> ctx, ok |-> AreRestrictionsMet(origin, ctx)]
    /\ UNCHANGED <<root, origin, append, originBefore, carved, carves, shown>>
    /\ UNCHANGED credVars

CheckNext == \E ctx \in Contexts : Check(ctx)

\* The lists over S of at most n elements.
RECURSIVE ListsUpTo(_, _)
ListsUpTo(S, n) ==
    IF n = 0 THEN {<<>>}
    ELSE LET shorter == ListsUpTo(S, n - 1)
         IN  shorter \cup {<<a>> \o l : a \in S, l \in shorter}

\* The rules handed to format!: ReadOnly, Pay, Add over at most three of
\* them, and Add over at most two of all of these.
DisplayInner == {ReadOnly, Pay} \cup {Add(l) : l \in ListsUpTo({ReadOnly, Pay}, 3)}

DisplayRules == DisplayInner \cup {Add(l) : l \in ListsUpTo(DisplayInner, 2)}

DisplayInit ==
    /\ root = NewMasterRune(Seed, <<>>)
    /\ origin = root
    /\ append = <<>>
    /\ originBefore = root
    /\ carved = None
    /\ carves = 0
    /\ checked = None
    /\ shown = None
    /\ CredInit

\* A call format!("{}", rule) (runes.rs:245-250).
Format(rule) ==
    /\ shown' = [rule |-> rule, text |-> fmt(rule)]
    /\ UNCHANGED <<root, origin, append, originBefore, carved, carves, checked>>
    /\ UNCHANGED credVars

DisplayNext == \E rule \in DisplayRules : Format(rule)

(***************************************************************************)
(* gl_client::credentials: Nobody and Device, as the credentials binding  *)
(* uses them.  Their behaviour follows the specification's data model      *)
(* (sections 3, 4.5, 4.6 and 6).                                           *)
(***************************************************************************)
DefaultCa == "ca-default"

\* Nobody::default(): the built-in anonymous TLS material.
NobodyDefault == [cert |-> "nobody-cert", key |-> "nobody-key", ca |-> DefaultCa]

\* Nobody::with(cert, key)
NobodyWithParts(cert, key) == [cert |-> cert, key |-> key, ca |-> DefaultCa]

\* Nobody::with_ca(ca)
NobodyWithCa(n, ca) == [n EXCEPT !.ca = ca]

\* Device::default()
DeviceDefault ==
    [version |-> 0, cert |-> "", key |-> "", ca |-> DefaultCa, rune |-> ""]

\* Device::with(cert, key, rune)
DeviceWith(cert, key, rune) ==
    [version |-> 0, cert |-> cert, key |-> key, ca |-> DefaultCa, rune |-> rune]

\* Device::with_ca(ca)
DeviceWithCa(d, ca) == [d EXCEPT !.ca = ca]

\* Device::to_bytes(): the versioned blob, one entry per stored field.
DeviceToBytes(d) == <<"v", d.version, d.cert, d.key, d.ca, d.rune>>

\* Device::from_bytes(data): the fields of a well-formed blob, the default
\* device otherwise.
DeviceFromBytes(data) ==
    IF Len(data) = 6 /\ data[1] = "v"
    THEN [version |-> data[2], cert |-> data[3], key |-> data[4],
          ca |-> data[5], rune |-> data[6]]
    ELSE DeviceDefault

\* The node a device certificate was issued for (node_id_source).
CertNode(cert) ==
    CASE cert = "cert-n1"   -> Ok("node-1")
      [] cert = "cert-n1-2" -> Ok("node-1")
      [] OTHER              -> Err("no node id in certificate")

\* Device::node_id()
DeviceNodeId(d) == CertNode(d.cert)

\* Device::rune()
DeviceRune(d) == d.rune

\* The file system seen by Device::from_path.
Files == [p \in {"creds.bin"} |->
             DeviceToBytes([version |-> 1, cert |-> "cert-n1", key |-> "key-1",
                            ca |-> DefaultCa, rune |-> "rune-A"])]

\* Device::from_path(path)
DeviceFromPath(path) ==
    IF path \in DOMAIN Files THEN DeviceFromBytes(Files[path]) ELSE DeviceDefault

\* The credentials the scheduler confirms for a pending device identity:
\* re-issued TLS material and/or rune, in the current blob version.
ConfirmedDevice(d, tls, rune) ==
    [d EXCEPT !.version = 1,
              !.cert = IF tls THEN "cert-n1-2" ELSE d.cert,
              !.rune = IF rune \/ d.rune = "" THEN "rune-B" ELSE d.rune]

(***************************************************************************)
(* UnifiedCredentials (credentials.rs:11-88).                              *)
(***************************************************************************)
NobodyCreds(n) == [kind |-> "Nobody", inner |-> n]
DeviceCreds(d) == [kind |-> "Device", inner |-> d]

IsIdentityError(msg) == Err([type |-> "IsIdentityError", msg |-> msg])
Panic(msg) == [kind |-> "panic", msg |-> msg]

\* credentials.rs:26-34
ensure_nobody(c) ==
    IF c.kind = "Nobody" THEN Ok("unit")
    ELSE IsIdentityError("credentials are not of type nobody")

\* ensure_device with the test inverted.
ensure_device_inverted(c) ==
    IF c.kind # "Device" THEN Ok("unit")
    ELSE IsIdentityError("credentials are not of type device")

\* credentials.rs:36-44
ensure_device(c) ==
    IF c.kind = "Device" THEN Ok("unit")
    ELSE IsIdentityError("credentials are not of type device")

\* credentials.rs:65-72
rune(c) ==
    IF c.kind = "Nobody"
    THEN Panic("can not provide rune from nobody credentials! something really bad happened.")
    ELSE Ok(DeviceRune(c.inner))

\* credentials.rs:80-87
node_id(c) ==
    IF c.kind = "Nobody"
    THEN Panic("can not provide node_id from nobody credentials! something really bad happened.")
    ELSE DeviceNodeId(c.inner)

(***************************************************************************)
(* Credentials (credentials.rs:90-188): the pure part of every method.     *)
(***************************************************************************)
\* credentials.rs:99-103
Credentials_new == NobodyCreds(NobodyDefault)

\* credentials.rs:106-110
Credentials_nobody_with(cert, key) == NobodyCreds(NobodyWithParts(cert, key))

\* credentials.rs:113-117
Credentials_from_path(path) == DeviceCreds(DeviceFromPath(path))

\* credentials.rs:120-124
Credentials_from_bytes(data) == DeviceCreds(DeviceFromBytes(data))

\* credentials.rs:127-131
Credentials_from_parts(cert, key, r) == DeviceCreds(DeviceWith(cert, key, r))

\* to_bytes handing out the blob without its first entry.
Credentials_to_bytes_truncated(c) ==
    IF c.kind = "Nobody"
    THEN IsIdentityError("can not convert nobody into bytes")
    ELSE Ok(Tail(DeviceToBytes(c.inner)))

\* credentials.rs:153-160
Credentials_to_bytes(c) ==
    IF c.kind = "Nobody"
    THEN IsIdentityError("can not convert nobody into bytes")
    ELSE Ok(DeviceToBytes(c.inner))

\* credentials.rs:162-164
Credentials_ensure_device(c) == ensure_device(c)

\* credentials.rs:166-168
Credentials_ensure_nobody(c) == ensure_nobody(c)

\* credentials.rs:170-172: Ok(self.inner.node_id()?)
Credentials_node_id(c) == node_id(c)

\* with_ca wrapping the device result as Nobody.
Credentials_with_ca_downgrades(c, ca) ==
    IF c.kind = "Nobody"
    THEN NobodyCreds(NobodyWithCa(c.inner, ca))
    ELSE NobodyCreds(NobodyWithCa(
             [cert |-> c.inner.cert, key |-> c.inner.key, ca |-> c.inner.ca], ca))

\* with_ca returning the clone without the new trust anchor.
Credentials_with_ca_dropsCa(c, ca) ==
    IF c.kind = "Nobody"
    THEN NobodyCreds(c.inner)
    ELSE DeviceCreds(c.inner)

\* credentials.rs:174-187
Credentials_with_ca(c, ca) ==
    IF c.kind = "Nobody"
    THEN NobodyCreds(NobodyWithCa(c.inner, ca))
    ELSE DeviceCreds(DeviceWithCa(c.inner, ca))

\* upgrade without the match on the identity kind.
Credentials_upgrade_entry_noKindCheck(c) ==
    [pc |-> "signing", clone |-> c.inner, result |-> None]

\* credentials.rs:134-137: what upgrade does on entry.  On Nobody it returns
\* the error at once; on Device it clones the device credentials and hands
\* the clone to the upgrade future.
Credentials_upgrade_entry(c) ==
    IF c.kind = "Nobody"
    THEN [pc |-> "err", clone |-> None,
          result |-> IsIdentityError("can not upgrade nobody credentials")]
    ELSE [pc |-> "signing", clone |-> c.inner, result |-> None]

(***************************************************************************)
(* The credentials state machine.                                          *)
(***************************************************************************)
\* Number of Credentials objects one run creates.
MaxCreds == 3

Modes == {"Unauthenticated", "Authenticated"}
CaBytes == {"ca-1"}
CertKeys == {<<"cert-n1", "key-1">>}
RuneStrings == {"", "rune-A"}
Paths == {"creds.bin"}
MalformedBytes == <<"garbage">>
\* What a confirmation re-issues: <<TLS material, rune>>.
Confirmations == {<<TRUE, FALSE>>, <<FALSE, TRUE>>, <<TRUE, TRUE>>}

CredSpecInit ==
    /\ root = NewMasterRune(Seed, <<>>)
    /\ origin = root
    /\ append = <<>>
    /\ originBefore = root
    /\ carved = None
    /\ carves = 0
    /\ checked = None
    /\ shown = None
    /\ CredInit

\* A constructor, with_ca or upgrade returns a new object; `self` is the
\* receiver (0 for the static constructors), `arg` the argument: for
\* from_bytes the object whose bytes were read (0 when there is none), for
\* with_ca the trust anchor.
Create(c, op, self, arg) ==
    /\ Len(creds) < MaxCreds
    /\ creds' = Append(creds, c)
    /\ prov' = Append(prov, [op |-> op, self |-> self, arg |-> arg])

New ==
    /\ Create(Credentials_new, "new", 0, 0)
    /\ UNCHANGED <<last, call>>
    /\ UNCHANGED runeVars

NobodyWith(ck) ==
    /\ Create(Credentials_nobody_with(ck[1], ck[2]), "nobody_with", 0, 0)
    /\ UNCHANGED <<last, call>>
    /\ UNCHANGED runeVars

FromPath(path) ==
    /\ Create(Credentials_from_path(path), "from_path", 0, 0)
    /\ UNCHANGED <<last, call>>
    /\ UNCHANGED runeVars

\* from_bytes of the bytes the last to_bytes call returned.
FromBytesOfLast ==
    /\ last.op = "to_bytes"
    /\ last.result.kind = "ok"
    /\ Create(Credentials_from_bytes(last.result.val), "from_bytes", 0, last.self)
    /\ UNCHANGED <<last, call>>
    /\ UNCHANGED runeVars

\* from_bytes of bytes that are no credentials blob.
FromBytesMalformed ==
    /\ Create(Credentials_from_bytes(MalformedBytes), "from_bytes", 0, 0)
    /\ UNCHANGED <<last, call>>
    /\ UNCHANGED runeVars

FromParts(ck, r) ==
    /\ Create(Credentials_from_parts(ck[1], ck[2], r), "from_parts", 0, 0)
    /\ UNCHANGED <<last, call>>
    /\ UNCHANGED runeVars

WithCa(i, ca) ==
    /\ Create(Credentials_with_ca(creds[i], ca), "with_ca", i, ca)
    /\ UNCHANGED <<last, call>>
    /\ UNCHANGED runeVars

ToBytes(i) ==
    /\ last' = [op |-> "to_bytes", self |-> i, result |-> Credentials_to_bytes(creds[i])]
    /\ UNCHANGED <<creds, prov, call>>
    /\ UNCHANGED runeVars

EnsureDevice(i) ==
    /\ last' = [op |-> "ensure_device", self |-> i,
                result |-> Credentials_ensure_device(creds[i])]
    /\ UNCHANGED <<creds, prov, call>>
    /\ UNCHANGED runeVars

EnsureNobody(i) ==
    /\ last' = [op |-> "ensure_nobody", self |-> i,
                result |-> Credentials_ensure_nobody(creds[i])]
    /\ UNCHANGED <<creds, prov, call>>
    /\ UNCHANGED runeVars

NodeId(i) ==
    /\ last' = [op |-> "node_id", self |-> i, result |-> Credentials_node_id(creds[i])]
    /\ UNCHANGED <<creds, prov, call>>
    /\ UNCHANGED runeVars

\* upgrade marking its receiver as pending while the call is in progress.
UpgradeCall_marksReceiver(t, i, mode) ==
    /\ call[t].pc = "idle"
    /\ LET e == Credentials_upgrade_entry(creds[i])
       IN  /\ call' = [call EXCEPT ![t] =
                          [pc |-> e.pc, self |-> i, mode |-> mode, clone |-> e.clone,
                           signReqs |-> 0, schedReqs |-> 0, result |-> e.result]]
           /\ creds' = IF e.pc = "signing"
                       THEN [creds EXCEPT ![i].inner.rune = "pending"]
                       ELSE creds
    /\ last' = [op |-> "upgrade", self |-> i, result |-> None]
    /\ UNCHANGED prov
    /\ UNCHANGED runeVars

\* credentials.rs:133-138: caller t invokes creds[i].upgrade(scheduler, signer)
\* with a scheduler in the given mode.
UpgradeCall(t, i, mode) ==
    /\ call[t].pc = "idle"
    /\ LET e == Credentials_upgrade_entry(creds[i])
       IN  call' = [call EXCEPT ![t] =
                       [pc |-> e.pc, self |-> i, mode |-> mode, clone |-> e.clone,
                        signReqs |-> 0, schedReqs |-> 0, result |-> e.result]]
    /\ last' = [op |-> "upgrade", self |-> i, result |-> None]
    /\ UNCHANGED <<creds, prov>>
    /\ UNCHANGED runeVars

\* Device::upgrade, first half: the signer signs the upgrade request of the
\* pending identity, or fails.
UpgradeSign(t, ok) ==
    /\ call[t].pc = "signing"
    /\ call' = [call EXCEPT ![t].signReqs = @ + 1,
                            ![t].pc = IF ok THEN "sending" ELSE "err",
                            ![t].result = IF ok THEN None ELSE Err("signer failure")]
    /\ UNCHANGED <<creds, prov, last>>
    /\ UNCHANGED runeVars

\* Device::upgrade, second half: the signed request goes to the scheduler.
UpgradeSend(t) ==
    /\ call[t].pc = "sending"
    /\ call' = [call EXCEPT ![t].schedReqs = @ + 1, ![t].pc = "waiting"]
    /\ UNCHANGED <<creds, prov, last>>
    /\ UNCHANGED runeVars

\* The scheduler confirms the credentials: the clone takes them.
UpgradeConfirm(t, tls, r) ==
    /\ call[t].pc = "waiting"
    /\ call' = [call EXCEPT ![t].clone = ConfirmedDevice(@, tls, r),
                            ![t].pc = "confirmed"]
    /\ UNCHANGED <<creds, prov, last>>
    /\ UNCHANGED runeVars

\* upgrade sending the request once more when the scheduler request fails,
\* and giving up after the second failure.
UpgradeFail_retries(t) ==
    /\ call[t].pc = "waiting"
    /\ call' = IF call[t].schedReqs < 2
               THEN [call EXCEPT ![t].pc = "sending"]
               ELSE [call EXCEPT ![t].pc = "err", ![t].result = Err("scheduler failure")]
    /\ UNCHANGED <<creds, prov, last>>
    /\ UNCHANGED runeVars

\* The scheduler request fails: exec(..)? returns the error.
UpgradeFail(t) ==
    /\ call[t].pc = "waiting"
    /\ call' = [call EXCEPT ![t].pc = "err", ![t].result = Err("scheduler failure")]
    /\ UNCHANGED <<creds, prov, last>>
    /\ UNCHANGED runeVars

\* upgrade storing the confirmed credentials into the receiver.
UpgradeReturn_inPlace(t) ==
    /\ call[t].pc = "confirmed"
    /\ creds' = [creds EXCEPT ![call[t].self] = DeviceCreds(call[t].clone)]
    /\ call' = [call EXCEPT ![t].pc = "ok", ![t].result = Ok(call[t].self)]
    /\ UNCHANGED <<prov, last>>
    /\ UNCHANGED runeVars

\* credentials.rs:141-142 / 146-147: Ok(Self { inner: Device(d) })
UpgradeReturn(t) ==
    /\ call[t].pc = "confirmed"
    /\ Create(DeviceCreds(call[t].clone), "upgrade", call[t].self, 0)
    /\ call' = [call EXCEPT ![t].pc = "ok", ![t].result = Ok(Len(creds) + 1)]
    /\ UNCHANGED last
    /\ UNCHANGED runeVars

\* The caller's execution context drops the call while it is suspended.
UpgradeCancel(t) ==
    /\ call[t].pc \in InProgress
    /\ call' = [call EXCEPT ![t].pc = "cancelled", ![t].clone = None]
    /\ UNCHANGED <<creds, prov, last>>
    /\ UNCHANGED runeVars

\* The caller takes the result of its finished call.
UpgradeDone(t) ==
    /\ call[t].pc \in {"ok", "err", "cancelled"}
    /\ call' = [call EXCEPT ![t] = Idle]
    /\ UNCHANGED <<creds, prov, last>>
    /\ UNCHANGED runeVars

\* No caller is inside an upgrade call.
Quiet == \A t \in Callers : call[t].pc = "idle"

\* One caller: exec blocks it until the upgrade future is over, so its other
\* calls happen between upgrade calls.
CredNext ==
    \/ Quiet /\ New
    \/ Quiet /\ \E ck \in CertKeys : NobodyWith(ck)
    \/ Quiet /\ \E path \in Paths : FromPath(path)
    \/ Quiet /\ FromBytesOfLast
    \/ Quiet /\ FromBytesMalformed
    \/ Quiet /\ \E ck \in CertKeys, r \in RuneStrings : FromParts(ck, r)
    \/ Quiet /\ \E i \in 1..Len(creds), ca \in CaBytes : WithCa(i, ca)
    \/ Quiet /\ \E i \in 1..Len(creds) : ToBytes(i)
    \/ Quiet /\ \E i \in 1..Len(creds) : EnsureDevice(i)
    \/ Quiet /\ \E i \in 1..Len(creds) : EnsureNobody(i)
    \/ Quiet /\ \E i \in 1..Len(creds) : NodeId(i)
    \/ \E i \in 1..Len(creds), mode \in Modes : UpgradeCall("t1", i, mode)
    \/ \E ok \in BOOLEAN : UpgradeSign("t1", ok)
    \/ UpgradeSend("t1")
    \/ \E o \in Confirmations : UpgradeConfirm("t1", o[1], o[2])
    \/ UpgradeFail("t1")
    \/ UpgradeReturn("t1")
    \/ UpgradeCancel("t1")
    \/ UpgradeDone("t1")

\* The Device identity several callers share (credentials.rs:127-131).
SharedDevice == Credentials_from_parts("cert-n1", "key-1", "rune-A")

ConcInit ==
    /\ root = NewMasterRune(Seed, <<>>)
    /\ origin = root
    /\ append = <<>>
    /\ originBefore = root
    /\ carved = None
    /\ carves = 0
    /\ checked = None
    /\ shown = None
    /\ creds = <<SharedDevice>>
    /\ prov = <<[op |-> "from_parts", self |-> 0, arg |-> 0]>>
    /\ last = [op |-> "none", self |-> 0, result |-> None]
    /\ call = [t \in Callers |-> Idle]

\* Calls that may still return a new object.
Pending == {t \in Callers : call[t].pc \in InProgress}

\* A caller starts an upgrade of an identity while other calls may be in
\* progress; a run creates at most MaxCreds objects.
ConcUpgradeCall(t, i, mode) ==
    /\ Len(creds) + Cardinality(Pending) < MaxCreds
    /\ UpgradeCall(t, i, mode)

\* The steps of caller t's upgrade call once it is entered: exec drives the
\* upgrade future until it is over (credentials.rs:140, 145).
UpgradeStep(t) ==
    \/ \E ok \in BOOLEAN : UpgradeSign(t, ok)
    \/ UpgradeSend(t)
    \/ \E o \in Confirmations : UpgradeConfirm(t, o[1], o[2])
    \/ UpgradeFail(t)
    \/ UpgradeReturn(t)
    \/ UpgradeDone(t)

\* Both callers upgrade, and any thread reads the identities meanwhile.
ConcNext ==
    \/ \E t \in Callers, i \in 1..Len(creds), mode \in Modes : ConcUpgradeCall(t, i, mode)
    \/ \E t \in Callers, ok \in BOOLEAN : UpgradeSign(t, ok)
    \/ \E t \in Callers : UpgradeSend(t)
    \/ \E t \in Callers, o \in Confirmations : UpgradeConfirm(t, o[1], o[2])
    \/ \E t \in Callers : UpgradeFail(t)
    \/ \E t \in Callers : UpgradeReturn(t)
    \/ \E t \in Callers : UpgradeDone(t)
    \/ \E i \in 1..Len(creds) : ToBytes(i)

(***************************************************************************)
(* Specifications.                                                         *)
(***************************************************************************)
RuneSpec == RuneInit /\ [][RuneNext]_vars

CredSpec == CredSpecInit /\ [][CredNext]_vars

CheckSpec == CheckInit /\ [][CheckNext]_vars

DisplaySpec == DisplayInit /\ [][DisplayNext]_vars

\* Concurrent upgrades; every call that was entered is driven to its end.
ConcSpec ==
    /\ ConcInit
    /\ [][ConcNext]_vars
    /\ \A t \in Callers : WF_vars(UpgradeStep(t))

(***************************************************************************)
(* Properties of the rune engine (checked under RuneSpec).                 *)
(***************************************************************************)
\* The rune the last successful carve returned, decoded from its token.
CarvedRune == FromBase64(carved.val).val

MasterRune == NewMasterRune(Seed, <<>>)

\* C1: attenuation monotonicity.  Whenever carve succeeds on a non-empty
\* policy list, every Context that meets the carved rune's restrictions
\* meets those of its origin; and along any chain of successive carves every
\* Context authorized by the current rune is authorized by the rune the
\* chain started from.
C1_AttenuationMonotone ==
    /\ (carved.kind = "ok" /\ Len(append) > 0) =>
          /\ FromBase64(carved.val).kind = "ok"
          /\ LET cr == CarvedRune
             IN  \A c \in Contexts :
                    AreRestrictionsMet(cr, c) =>
                        AreRestrictionsMet(originBefore, c) /\ AreRestrictionsMet(root, c)
    /\ \A c \in Contexts : AreRestrictionsMet(origin, c) => AreRestrictionsMet(root, c)

\* A second successive carve on an already restricted rune that really
\* narrows: some Context passes the origin but not the carved rune, and some
\* Context still passes the carved rune.
C1_Witness ==
    /\ carves >= 2
    /\ carved.kind = "ok"
    /\ Len(append) > 0
    /\ Len(originBefore.restrictions) > Len(root.restrictions)
    /\ Len(root.restrictions) > 0
    /\ \E c \in Contexts : AreRestrictionsMet(originBefore, c) /\ ~AreRestrictionsMet(CarvedRune, c)
    /\ \E c \in Contexts : AreRestrictionsMet(CarvedRune, c)

\* C9: carve never mutates its origin.  After a carve call, whether it
\* returned a token or an error, the origin's restrictions, authentication
\* code and base64 encoding are what they were when the call was made.
C9_OriginNotMutated ==
    carved.kind \in {"ok", "err"} =>
        /\ origin.restrictions = originBefore.restrictions
        /\ origin.authcode = originBefore.authcode
        /\ ToBase64(origin) = ToBase64(originBefore)

\* A carve that appended restrictions to its clone: the token differs from
\* the origin's encoding.
C9_Witness ==
    /\ carved.kind = "ok"
    /\ Len(append) > 0
    /\ Len(CarvedRune.restrictions) > Len(origin.restrictions)
    /\ carved.val # ToBase64(origin)

\* The methods of Methods that begin with "Get" or with "List".
ReadMethods == {"GetInfo", "ListFunds", "Get", "List"}

\* C10: ReadOnly.  The rune carved from the unrestricted master rune with
\* [ReadOnly] carries the single restriction "method^Get|method^List" and
\* authorizes a Context iff its method begins with "Get" or "List",
\* case-sensitively: "ListFunds" and "GetInfo" pass, "pay" fails.
C10_ReadOnly ==
    (carved.kind = "ok" /\ append = <<ReadOnly>> /\ originBefore = MasterRune) =>
        /\ carved.val.text = "method^Get|method^List"
        /\ Len(CarvedRune.restrictions) = 1
        /\ LET cr == CarvedRune
           IN  \A c \in Contexts :
                  /\ AreRestrictionsMet(cr, c) <=> c.method \in ReadMethods
                  /\ c.method \in {"ListFunds", "GetInfo"} => AreRestrictionsMet(cr, c)
                  /\ c.method \in {"pay", "getinfo", "listfunds"} => ~AreRestrictionsMet(cr, c)

C10_Witness ==
    /\ carved.kind = "ok"
    /\ append = <<ReadOnly>>
    /\ originBefore = MasterRune
    /\ carved.val.text = "method^Get|method^List"

(***************************************************************************)
(* Properties of the credentials binding (checked under CredSpec).         *)
(***************************************************************************)
IsIdentityErr(r) == r.kind = "err" /\ r.err \in [type : {"IsIdentityError"}, msg : STRING]

\* C2: the public Credentials.node_id() on a Nobody identity returns a typed
\* identity-kind error, and the panic branch of the inner node_id is never
\* reached through the public operations.
C2_NodeIdOnNobodyIsTypedError ==
    /\ (last.op = "node_id" /\ creds[last.self].kind = "Nobody") =>
            last.result.kind = "err" /\ last.result.err.type = "IsIdentityError"
    /\ last.result.kind # "panic"

\* C3: upgrade on a Nobody identity returns the identity-kind error, in
\* either scheduler mode, and the call makes no signer and no scheduler
\* request.
C3_UpgradeNobodyFails ==
    \A t \in Callers :
        (call[t].pc # "idle" /\ creds[call[t].self].kind = "Nobody") =>
            /\ call[t].pc = "err"
            /\ call[t].result = IsIdentityError("can not upgrade nobody credentials")
            /\ call[t].signReqs = 0
            /\ call[t].schedReqs = 0

C3_Witness ==
    \E t \in Callers :
        /\ call[t].pc = "err"
        /\ call[t].mode = "Authenticated"
        /\ creds[call[t].self].kind = "Nobody"
        /\ prov[call[t].self].op = "with_ca"

\* The step is one of caller t's upgrade call, taken after its entry.
UpgradeStepOf(t) == call[t].pc \in InProgress /\ call'[t] # call[t]

\* C4: upgrade is all-or-nothing.  A call on a Device identity ends as "ok"
\* with an Ok result naming a new Device identity that carries the confirmed
\* credentials, or as "err"/"cancelled" with no Ok result; no step of the
\* call changes an existing identity, and every step that does not end the
\* call successfully leaves all identities as they were.
C4_UpgradeAllOrNothing ==
    [][\A t \in Callers :
          UpgradeStepOf(t) =>
              /\ call'[t].pc \in InProgress \cup {"ok", "err", "cancelled"}
              /\ \A i \in 1..Len(creds) : creds'[i] = creds[i] /\ prov'[i] = prov[i]
              /\ call'[t].pc # "ok" => creds' = creds /\ prov' = prov
              /\ call'[t].pc \in {"err", "cancelled"} => call'[t].result.kind # "ok"
              /\ call'[t].pc = "ok" =>
                    /\ Len(creds') = Len(creds) + 1
                    /\ call'[t].result = Ok(Len(creds'))
                    /\ creds'[Len(creds')] = DeviceCreds(call[t].clone)
                    /\ call[t].pc = "confirmed"
                    /\ prov'[Len(creds')].op = "upgrade"
                    /\ prov'[Len(creds')].self = call[t].self
      ]_vars

\* An upgrade of a Device identity that failed after its request had reached
\* the scheduler.
C4_Witness ==
    \E t \in Callers :
        /\ call[t].pc = "err"
        /\ call[t].schedReqs = 1
        /\ creds[call[t].self].kind = "Device"

\* The receiver chain of an identity ends in a static constructor.
RECURSIVE FirstAncestor(_)
FirstAncestor(j) == IF prov[j].self = 0 THEN j ELSE FirstAncestor(prov[j].self)

NobodyConstructors == {"new", "nobody_with"}
DeviceConstructors == {"from_path", "from_bytes", "from_parts"}

\* C5: no downgrade.  Every identity derived from a Device is a Device; a
\* Nobody is the result of new, nobody_with or with_ca on a Nobody; a Device
\* is the result of from_path, from_bytes, from_parts, a successful upgrade
\* or with_ca on a Device.
C5_NoDowngrade ==
    /\ Len(prov) = Len(creds)
    /\ \A j \in 1..Len(creds) :
          /\ creds[FirstAncestor(j)].kind = "Device" => creds[j].kind = "Device"
          /\ (prov[j].self # 0 /\ creds[prov[j].self].kind = "Device") => creds[j].kind = "Device"
          /\ creds[j].kind = "Nobody" =>
                \/ prov[j].op \in NobodyConstructors
                \/ prov[j].op = "with_ca" /\ creds[prov[j].self].kind = "Nobody"
          /\ creds[j].kind = "Device" =>
                \/ prov[j].op \in DeviceConstructors
                \/ prov[j].op = "upgrade" /\ creds[prov[j].self].kind = "Device"
                \/ prov[j].op = "with_ca" /\ creds[prov[j].self].kind = "Device"

\* with_ca applied to the result of an upgrade of a constructed Device.
C5_Witness ==
    \E j \in 1..Len(creds) :
        /\ prov[j].op = "with_ca"
        /\ prov[prov[j].self].op = "upgrade"
        /\ creds[FirstAncestor(j)].kind = "Device"
        /\ FirstAncestor(j) # prov[j].self

\* C6: to_bytes fails with an identity-kind error on Nobody and succeeds on
\* Device; from_bytes of the returned bytes is a Device with the node id and
\* the rune of the original.
C6_ToBytesRoundTrip ==
    /\ last.op = "to_bytes" =>
          /\ creds[last.self].kind = "Nobody" =>
                last.result = IsIdentityError("can not convert nobody into bytes")
          /\ creds[last.self].kind = "Device" => last.result.kind = "ok"
    /\ \A j \in 1..Len(creds) :
          (prov[j].op = "from_bytes" /\ prov[j].arg # 0) =>
              /\ creds[prov[j].arg].kind = "Device"
              /\ creds[j].kind = "Device"
              /\ node_id(creds[j]) = node_id(creds[prov[j].arg])
              /\ rune(creds[j]) = rune(creds[prov[j].arg])

\* from_bytes of the bytes of a Device that has a node id and a rune.
C6_Witness ==
    \E j \in 1..Len(creds) :
        /\ prov[j].op = "from_bytes"
        /\ prov[j].arg # 0
        /\ node_id(creds[j]) = Ok("node-1")
        /\ rune(creds[j]) = Ok("rune-A")

\* C7: ensure_device is Ok exactly on Device and an identity-kind error on
\* Nobody, ensure_nobody is Ok exactly on Nobody and an identity-kind error
\* on Device, so exactly one of them succeeds on every identity; a call of
\* either leaves every identity as it was.
C7_Guards ==
    /\ [](/\ \A i \in 1..Len(creds) :
                /\ Credentials_ensure_device(creds[i]).kind = "ok" <=> creds[i].kind = "Device"
                /\ Credentials_ensure_nobody(creds[i]).kind = "ok" <=> creds[i].kind = "Nobody"
                /\ creds[i].kind = "Nobody" => IsIdentityErr(Credentials_ensure_device(creds[i]))
                /\ creds[i].kind = "Device" => IsIdentityErr(Credentials_ensure_nobody(creds[i]))
                /\ (Credentials_ensure_device(creds[i]).kind = "ok")
                       # (Credentials_ensure_nobody(creds[i]).kind = "ok")
          /\ last.op = "ensure_device" => last.result = Credentials_ensure_device(creds[last.self])
          /\ last.op = "ensure_nobody" => last.result = Credentials_ensure_nobody(creds[last.self]))
    /\ [][(/\ last'.op \in {"ensure_device", "ensure_nobody"}
           /\ (last'.op # last.op \/ last'.self # last.self)) =>
              creds' = creds /\ prov' = prov]_vars

C7_Witness ==
    /\ last.op = "ensure_nobody"
    /\ creds[last.self].kind = "Device"
    /\ IsIdentityErr(last.result)

\* C8: with_ca returns a new identity of the receiver's variant that carries
\* the given trust anchor; the receiver is unchanged; for a Device the rune
\* and the node id of the result are those of the receiver.
C8_WithCa ==
    /\ [](\A j \in 1..Len(creds) :
            prov[j].op = "with_ca" =>
                LET p == prov[j].self
                IN  /\ p \in 1..(j - 1)
                    /\ creds[j].kind = creds[p].kind
                    /\ creds[j].inner.ca = prov[j].arg
                    /\ creds[j].inner.cert = creds[p].inner.cert
                    /\ creds[j].inner.key = creds[p].inner.key
                    /\ creds[p].kind = "Device" =>
                          /\ rune(creds[j]) = rune(creds[p])
                          /\ node_id(creds[j]) = node_id(creds[p]))
    /\ [][\A i \in 1..Len(creds) : creds'[i] = creds[i]]_vars

\* with_ca on a Device that has a rune and a node id, changing its anchor.
C8_Witness ==
    \E j \in 1..Len(creds) :
        /\ prov[j].op = "with_ca"
        /\ creds[j].kind = "Device"
        /\ creds[j].inner.ca # creds[prov[j].self].inner.ca
        /\ rune(creds[j]) = Ok("rune-A")
        /\ node_id(creds[j]) = Ok("node-1")

\* C11: Pay.  The rune carved from the unrestricted master rune with [Pay]
\* carries the single restriction "method=pay" and authorizes a Context iff
\* its method is exactly "pay", whatever its pubkey, unique id and time;
\* "Pay", "payList" and the empty method fail.
C11_Pay ==
    (carved.kind = "ok" /\ append = <<Pay>> /\ originBefore = MasterRune) =>
        /\ carved.val.text = "method=pay"
        /\ Len(CarvedRune.restrictions) = 1
        /\ LET cr == CarvedRune
           IN  \A c \in Contexts :
                  /\ AreRestrictionsMet(cr, c) <=> c.method = "pay"
                  /\ c.method \in {"Pay", "", "payList"} => ~AreRestrictionsMet(cr, c)
                  /\ \A c2 \in Contexts :
                        c2.method = c.method =>
                            (AreRestrictionsMet(cr, c2) <=> AreRestrictionsMet(cr, c))

C11_Witness ==
    /\ carved.kind = "ok"
    /\ append = <<Pay>>
    /\ originBefore = MasterRune
    /\ carved.val.text = "method=pay"
    /\ \E c \in Contexts : c.method = "pay" /\ c.time = -1 /\ AreRestrictionsMet(CarvedRune, c)

\* The alternatives of the restrictions generated by the listed policies,
\* policy after policy.
RECURSIVE ListedAlternatives(_)
ListedAlternatives(rules) ==
    IF Len(rules) = 0 THEN <<>>
    ELSE FlatAlternatives(generate(Head(rules)).val) \o ListedAlternatives(Tail(rules))

\* C12: Add.  Where Add(list) generates, it generates exactly one
\* restriction whose alternatives are those of the restrictions generated
\* by the listed policies, concatenated in list order (nested Add
\* included); a Context meets it iff it meets some alternative of some
\* listed policy.  Add([ReadOnly, Pay]) carved on the master rune yields
\* "method^Get|method^List|method=pay".
C12_Add ==
    /\ \A i \in 1..Len(append) :
          (append[i].tag = "Add" /\ generate(append[i]).kind = "ok") =>
              LET g == generate(append[i]).val
                  listed == append[i].rules
                  sub == [k \in 1..Len(listed) |-> generate(listed[k]).val]
              IN  /\ Len(g) = 1
                  /\ g[1].alternatives = ListedAlternatives(listed)
                  /\ \A c \in Contexts :
                        RestrictionMet(g[1], c) <=>
                            \E k \in 1..Len(listed) :
                                \E r \in 1..Len(sub[k]) : RestrictionMet(sub[k][r], c)
    /\ (carved.kind = "ok" /\ originBefore = MasterRune) =>
          /\ append = <<Add(<<ReadOnly, Pay>>)>> =>
                carved.val.text = "method^Get|method^List|method=pay"
          /\ append = <<Add(<<Pay, Add(<<ReadOnly>>)>>)>> =>
                carved.val.text = "method=pay|method^Get|method^List"

C12_Witness ==
    /\ carved.kind = "ok"
    /\ append = <<Add(<<ReadOnly, Pay>>)>>
    /\ originBefore = MasterRune
    /\ carved.val.text = "method^Get|method^List|method=pay"
    /\ Len(CarvedRune.restrictions) = 1

\* The rune with the single restriction made of the one given alternative.
RuneOn(field, cond, value) ==
    RuneNew(MasterRune.authcode, SingleRestriction(field, cond, value))

\* C13: Missing.  The rune restricted to `pubkey Missing` is met by a
\* Context iff its pubkey is empty, the rune restricted to `method Missing`
\* iff its method is empty, whatever the other fields are.
C13_Missing ==
    checked # None =>
        /\ origin = RuneOn("pubkey", "Missing", "") =>
              /\ checked.ok <=> checked.ctx.pubkey = ""
              /\ \A c \in Contexts :
                    c.pubkey = checked.ctx.pubkey =>
                        AreRestrictionsMet(origin, c) = checked.ok
        /\ origin = RuneOn("method", "Missing", "") =>
              /\ checked.ok <=> checked.ctx.method = ""
              /\ \A c \in Contexts :
                    c.method = checked.ctx.method =>
                        AreRestrictionsMet(origin, c) = checked.ok

\* `pubkey Missing` met with an empty pubkey and a non-empty method.
C13_Witness ==
    /\ checked # None
    /\ origin = RuneOn("pubkey", "Missing", "")
    /\ checked.ctx.pubkey = ""
    /\ checked.ctx.method = "pay"
    /\ checked.ok

\* C14: a rune whose only restriction is pubkey = K is met by a Context iff
\* its pubkey is K; two Contexts with the same pubkey get the same outcome
\* whatever their method, unique id and time.
C14_PubkeyOnly ==
    (checked # None /\ origin = RuneOn("pubkey", "Equal", "020000000000000000")) =>
        /\ checked.ok <=> checked.ctx.pubkey = "020000000000000000"
        /\ \A c \in Contexts :
              c.pubkey = checked.ctx.pubkey =>
                  AreRestrictionsMet(origin, c) = checked.ok

\* pubkey = K met by a Context with that pubkey, no method and a time
\* before the epoch.
C14_Witness ==
    /\ checked # None
    /\ origin = RuneOn("pubkey", "Equal", "020000000000000000")
    /\ checked.ctx.pubkey = "020000000000000000"
    /\ checked.ctx.method = ""
    /\ checked.ctx.time = -1
    /\ checked.ok

\* C15: field resolution.  An alternative on "" is checked against the
\* unique id, on "method" against the method, on "pubkey" against the
\* pubkey, on "time" against the decimal seconds since the epoch; on any
\* other field against the empty string, so that there Missing is met by
\* every Context and Equal to a non-empty value by none.
C15_FieldResolution ==
    checked # None =>
        /\ origin = RuneOn("", "Equal", "id-1") =>
              (checked.ok <=> checked.ctx.unique_id = "id-1")
        /\ origin = RuneOn("method", "Equal", "GetInfo") =>
              (checked.ok <=> checked.ctx.method = "GetInfo")
        /\ origin = RuneOn("pubkey", "Equal", "020000000000000000") =>
              (checked.ok <=> checked.ctx.pubkey = "020000000000000000")
        /\ origin = RuneOn("time", "Equal", "12") =>
              (checked.ok <=> checked.ctx.time = 12)
        /\ origin = RuneOn("param", "Missing", "") => checked.ok
        /\ origin = RuneOn("param", "Equal", "x") => ~checked.ok

\* Missing on an unrecognized field met by a Context all of whose fields
\* are set.
C15_Witness ==
    /\ checked # None
    /\ origin = RuneOn("param", "Missing", "")
    /\ checked.ctx.method = "pay"
    /\ checked.ctx.pubkey = "030000"
    /\ checked.ctx.unique_id = "id-1"
    /\ checked.ctx.time = 12
    /\ checked.ok

\* C16: lineage.  Every token carve returns for the master rune, or for a
\* rune carved from it in earlier calls, decodes with from_base64 into a
\* rune the master rune authorizes.
C16_Lineage ==
    root = MasterRune =>
        /\ IsAuthorized(root, origin)
        /\ carved.kind = "ok" =>
              /\ FromBase64(carved.val).kind = "ok"
              /\ IsAuthorized(root, CarvedRune)

\* A token carved from a rune that was itself carved from the master rune.
C16_Witness ==
    /\ root = MasterRune
    /\ carved.kind = "ok"
    /\ originBefore # MasterRune
    /\ append # <<>>
    /\ Len(CarvedRune.restrictions) > Len(originBefore.restrictions)
    /\ Len(originBefore.restrictions) > 0
    /\ IsAuthorized(root, CarvedRune)

\* C17: Display.  ReadOnly renders "readonly", Pay renders "pay", and
\* Add(list) renders the renderings of its elements, in list order, joined
\* by "|"; Add([Pay]) renders "pay", Add([Pay, ReadOnly]) "pay|readonly".
C17_DisplayJoins ==
    shown # None =>
        /\ shown.rule = ReadOnly => shown.text = "readonly"
        /\ shown.rule = Pay => shown.text = "pay"
        /\ shown.rule = Add(<<Pay>>) => shown.text = "pay"
        /\ shown.rule = Add(<<Pay, ReadOnly>>) => shown.text = "pay|readonly"
        /\ shown.rule.tag = "Add" =>
              shown.text =
                  JoinWith([k \in 1..Len(shown.rule.rules) |-> fmt(shown.rule.rules[k])], "|")

\* The restrictions generated by the policies, policy after policy.
RECURSIVE GeneratedBy(_)
GeneratedBy(policies) ==
    IF Len(policies) = 0 THEN <<>>
    ELSE generate(Head(policies)).val \o GeneratedBy(Tail(policies))

\* C18: append order.  The restrictions of the rune carve returns are the
\* origin's restrictions, unaltered and in their order, followed by the
\* restrictions generated by the policies in policy order; with an empty
\* policy list the token is the origin's own encoding.
C18_AppendInOrder ==
    carved.kind = "ok" =>
        LET cr == CarvedRune
            n == Len(originBefore.restrictions)
        IN  /\ FromBase64(carved.val).kind = "ok"
            /\ Len(cr.restrictions) >= n
            /\ SubSeq(cr.restrictions, 1, n) = originBefore.restrictions
            /\ cr.restrictions = originBefore.restrictions \o GeneratedBy(append)
            /\ append = <<>> => carved.val = ToBase64(originBefore)

\* Two policies with different restrictions added to a restricted origin.
C18_Witness ==
    /\ carved.kind = "ok"
    /\ append = <<Pay, ReadOnly>>
    /\ Len(originBefore.restrictions) > 0
    /\ Len(CarvedRune.restrictions) = Len(originBefore.restrictions) + Len(append)
    /\ carved.val.text = RestrictionsEncode(originBefore.restrictions) \o "&method=pay&method^Get|method^List"

\* A policy whose generation fails: an Add over no policy, or over a policy
\* that fails itself.
RECURSIVE Fails(_)
Fails(rule) ==
    /\ rule.tag = "Add"
    /\ \/ rule.rules = <<>>
       \/ \E k \in 1..Len(rule.rules) : Fails(rule.rules[k])

\* C19: no restriction without alternatives is ever produced.  Add over a
\* list that yields no alternative fails with the validation error, and
\* carve with such a policy in its list returns that error and no token and
\* adds nothing to the origin.
C19_NoEmptyRestriction ==
    /\ \A i \in 1..Len(origin.restrictions) : Len(origin.restrictions[i].alternatives) > 0
    /\ carved.kind = "ok" =>
          LET cr == CarvedRune
          IN  /\ \A i \in 1..Len(cr.restrictions) : Len(cr.restrictions[i].alternatives) > 0
              /\ \A i \in 1..Len(append) : ~Fails(append[i])
    /\ \A i \in 1..Len(append) :
          LET g == generate(append[i])
          IN  /\ Fails(append[i]) <=> g.kind = "err"
              /\ Fails(append[i]) => g = RestrictionNew(<<>>)
              /\ ~Fails(append[i]) =>
                    \A k \in 1..Len(g.val) : Len(g.val[k].alternatives) > 0
    /\ (carved # None /\ \E i \in 1..Len(append) : Fails(append[i])) =>
          LET first == CHOOSE i \in 1..Len(append) :
                           Fails(append[i]) /\ \A j \in 1..(i - 1) : ~Fails(append[j])
          IN  /\ carved.kind = "err"
              /\ carved = generate(append[first])
              /\ origin = originBefore

\* carve failing on the second policy of its list, an Add over nothing.
C19_Witness ==
    /\ carved.kind = "err"
    /\ append = <<Pay, Add(<<>>)>>
    /\ origin = originBefore
    /\ carved = RestrictionNew(<<>>)

\* The list with its elements in the opposite order.
Reversed(s) == [i \in 1..Len(s) |-> s[Len(s) + 1 - i]]

\* C20: authorization does not depend on the order of appending.  carve
\* with [A, B] and carve with [B, A] on the same rune authorize the same
\* Contexts, and so does carving [A] and then [B] on the result.
C20_OrderIndependent ==
    (carved # None /\ Len(append) = 2) =>
        LET swapped == carve(originBefore, Reversed(append)).result
            first == carve(originBefore, <<append[1]>>).result
        IN  /\ swapped.kind = carved.kind
            /\ carved.kind = "ok" =>
                  /\ first.kind = "ok"
                  /\ LET second == carve(FromBase64(first.val).val, <<append[2]>>).result
                         cr == CarvedRune
                         sw == FromBase64(swapped.val).val
                     IN  /\ second.kind = "ok"
                         /\ LET sc == FromBase64(second.val).val
                            IN  \A c \in Contexts :
                                   /\ AreRestrictionsMet(cr, c) <=> AreRestrictionsMet(sw, c)
                                   /\ AreRestrictionsMet(cr, c) <=> AreRestrictionsMet(sc, c)

\* Two policies that authorize different Contexts, carved together on the
\* master rune; some Context is authorized and some is not.
C20_Witness ==
    /\ carved.kind = "ok"
    /\ append = <<ReadOnly, Add(<<ReadOnly, Pay>>)>>
    /\ originBefore = MasterRune
    /\ carve(originBefore, Reversed(append)).result.val # carved.val
    /\ \E c \in Contexts : AreRestrictionsMet(CarvedRune, c)
    /\ \E c \in Contexts : ~AreRestrictionsMet(CarvedRune, c)

\* C23: listing policies separately is conjunction.  carve with
\* [ReadOnly, Pay] appends two restrictions and the carved rune authorizes
\* no Context; carve with [Add([ReadOnly, Pay])] appends one restriction and
\* authorizes the Contexts the origin authorizes whose method is "pay" or
\* begins with "Get" or "List".
C23_ListIsConjunction ==
    carved.kind = "ok" =>
        LET cr == CarvedRune
            n == Len(originBefore.restrictions)
        IN  /\ append = <<ReadOnly, Pay>> =>
                  /\ Len(cr.restrictions) = n + 2
                  /\ \A c \in Contexts : ~AreRestrictionsMet(cr, c)
            /\ append = <<Add(<<ReadOnly, Pay>>)>> =>
                  /\ Len(cr.restrictions) = n + 1
                  /\ \A c \in Contexts :
                        AreRestrictionsMet(cr, c) <=>
                            /\ AreRestrictionsMet(originBefore, c)
                            /\ \/ c.method = "pay"
                               \/ BeginsWith(c.method, "Get")
                               \/ BeginsWith(c.method, "List")

\* [ReadOnly, Pay] carved on a rune that authorizes Contexts of both kinds.
C23_Witness ==
    /\ carved.kind = "ok"
    /\ append = <<ReadOnly, Pay>>
    /\ \E c \in Contexts : c.method = "pay" /\ AreRestrictionsMet(originBefore, c)
    /\ \E c \in Contexts : c.method = "GetInfo" /\ AreRestrictionsMet(originBefore, c)
    /\ \A c \in Contexts : ~AreRestrictionsMet(CarvedRune, c)

\* C21: concurrent upgrades are isolated.  Under every interleaving of the
\* callers' upgrade calls: no existing identity ever changes, so whatever a
\* thread reads of the shared identity is its pre-upgrade value; a call
\* works on its own clone, which no other call's step touches; a call ends
\* with one result, Ok naming a new Device of its own or an error, which
\* stays as it is until the caller takes it; and every call entered ends.
C21_ConcurrentUpgradesIsolated ==
    /\ [](/\ creds[1] = SharedDevice
          /\ \A t \in Callers :
                /\ call[t].pc \in {"signing", "sending", "waiting"} =>
                      call[t].clone = creds[call[t].self].inner
                /\ call[t].pc \in InProgress => call[t].result = None
                /\ call[t].pc = "err" => call[t].result.kind = "err"
                /\ call[t].pc = "ok" =>
                      /\ call[t].result.kind = "ok"
                      /\ call[t].result.val \in 2..Len(creds)
                      /\ creds[call[t].result.val].kind = "Device"
                      /\ prov[call[t].result.val].op = "upgrade"
                      /\ prov[call[t].result.val].self = call[t].self
                      /\ \A u \in Callers \ {t} :
                            call[u].pc = "ok" => call[u].result # call[t].result
          /\ (last.op = "to_bytes" /\ last.self = 1) =>
                last.result = Credentials_to_bytes(SharedDevice))
    /\ [][/\ \A i \in 1..Len(creds) : creds'[i] = creds[i]
          /\ \A t \in Callers :
                /\ call[t].pc \in {"ok", "err"} =>
                      (call'[t] = call[t] \/ call'[t] = Idle)
                /\ call'[t] # call[t] =>
                      \A u \in Callers \ {t} : call'[u] = call[u]
         ]_vars
    /\ \A t \in Callers :
          (call[t].pc \in InProgress) ~> (call[t].pc \in {"ok", "err"})

\* Two calls on the shared identity in progress at once, one of them
\* already confirmed with credentials that differ from the identity's, the
\* other still waiting, and a thread reading the identity meanwhile.
C21_Witness ==
    /\ call["t1"].pc = "confirmed"
    /\ call["t2"].pc = "waiting"
    /\ call["t1"].self = 1
    /\ call["t2"].self = 1
    /\ call["t1"].clone # SharedDevice.inner
    /\ call["t2"].clone = SharedDevice.inner
    /\ last.op = "to_bytes"
    /\ last.self = 1
    /\ last.result = Credentials_to_bytes(SharedDevice)

\* C22: one round trip, no retry.  An upgrade call on a Device identity has
\* the request signed once and sends it to the scheduler once, whatever the
\* scheduler's mode; a call that failed returns the signer's or the
\* scheduler's error as it is and has sent no second request.
C22_OneRoundTrip ==
    \A t \in Callers :
        (call[t].pc # "idle" /\ creds[call[t].self].kind = "Device") =>
            /\ call[t].mode \in Modes
            /\ call[t].signReqs <= 1
            /\ call[t].schedReqs <= 1
            /\ call[t].pc = "signing" => call[t].signReqs = 0 /\ call[t].schedReqs = 0
            /\ call[t].pc = "sending" => call[t].signReqs = 1 /\ call[t].schedReqs = 0
            /\ call[t].pc \in {"waiting", "confirmed", "ok"} =>
                  call[t].signReqs = 1 /\ call[t].schedReqs = 1
            /\ call[t].pc = "err" =>
                  \/ /\ call[t].result = Err("signer failure")
                     /\ call[t].signReqs = 1
                     /\ call[t].schedReqs = 0
                  \/ /\ call[t].result = Err("scheduler failure")
                     /\ call[t].signReqs = 1
                     /\ call[t].schedReqs = 1

\* An upgrade through an authenticated scheduler whose one request failed.
C22_Witness ==
    \E t \in Callers :
        /\ call[t].pc = "err"
        /\ call[t].mode = "Authenticated"
        /\ creds[call[t].self].kind = "Device"
        /\ call[t].result = Err("scheduler failure")
        /\ call[t].schedReqs = 1
        /\ call[t].signReqs = 1
====
